---- MODULE Spec2Model ----
(***************************************************************************)
(* The Art Library backend of src/main.py: the HTTP routes /, /api/hello,  *)
(* /test, /schema and list/create on the collections "character" and      *)
(* "item", over a document store reached through create_document and      *)
(* get_documents.  One action per route handler; the request binding that  *)
(* the parameter types ask of the framework is part of the handler's       *)
(* action.                                                                 *)
(*                                                                         *)
(* Encoding.  An optional value is None (the empty tuple) or Some(v) (a    *)
(* one-element tuple).  Text that the code cuts, renders or normalises is  *)
(* a sequence of one-character strings; other text is a string.  A record  *)
(* of the store or of a response is a function from field names to values. *)
(***************************************************************************)
EXTENDS Integers, Sequences, FiniteSets, TLC

VARIABLES store, next_oid, conn, resp, issued

vars == <<store, next_oid, conn, resp, issued>>

\* ------------------------------------------------------------------ bounds

\* Most documents the store holds over both collections in a checked run.
MaxDocs == 2

\* ------------------------------------------------------------- primitives

None == <<>>

Some(v) == <<v>>

Min(a, b) == IF a <= b THEN a ELSE b

\* Python's s[:n] for n >= 0.
Take(s, n) == SubSeq(s, 1, Min(n, Len(s)))

\* A text of n characters (an exception's message, a collection name list).
Msg(n) == [i \in 1..n |-> "x"]

Range(s) == {s[i] : i \in DOMAIN s}

\* The order-preserving subsequences of s that have exactly k elements.
RECURSIVE SubSeqsOfLen(_, _)
SubSeqsOfLen(s, k) ==
    IF k = 0 THEN {<<>>}
    ELSE IF Len(s) < k THEN {}
    ELSE {<<Head(s)>> \o t : t \in SubSeqsOfLen(Tail(s), k - 1)}
         \cup SubSeqsOfLen(Tail(s), k)

AllSubSeqs(s) == UNION {SubSeqsOfLen(s, k) : k \in 0..Len(s)}

\* ------------------------------------------------- identifiers of the store

\* Length of the text rendering of a store identifier.
OidHexLen == 24

HexDigits ==
    <<"0", "1", "2", "3", "4", "5", "6", "7",
      "8", "9", "a", "b", "c", "d", "e", "f">>

\* The w hexadecimal digits of n, most significant first.
RECURSIVE HexStr(_, _)
HexStr(n, w) ==
    IF w = 0 THEN <<>>
    ELSE Append(HexStr(n \div 16, w - 1), HexDigits[(n % 16) + 1])

\* str(oid) of a store identifier: its fixed-width hexadecimal text.
str(oid) == HexStr(oid, OidHexLen)

\* ------------------------------------------------------------- the schemas

RARITIES == {"Common", "Rare", "Epic", "Legendary", "Champion"}

CharacterFields ==
    {"name", "rarity", "nation_code", "role", "bio", "image_url",
     "palette", "stats", "tags"}

CharacterRequired == {"name", "rarity"}

ItemFields == {"name", "type", "rarity", "effect", "image_url", "tags"}

ItemRequired == {"name", "type", "rarity"}

\* The value a model field takes when the body omits it: tags = [] and None
\* for the other optional fields (both the empty tuple in this encoding).
FieldDefault(f) == IF f = "tags" THEN <<>> ELSE None

\* ------------------------------------------------------------ HttpUrl

UpperChars == {"A", "B", "C", "E", "H", "I", "O", "P", "S", "T", "X"}

LowerOf ==
    [c \in UpperChars |->
        CASE c = "A" -> "a" [] c = "B" -> "b" [] c = "C" -> "c"
          [] c = "E" -> "e" [] c = "H" -> "h" [] c = "I" -> "i"
          [] c = "O" -> "o" [] c = "P" -> "p" [] c = "S" -> "s"
          [] c = "T" -> "t" [] c = "X" -> "x"]

Lower(s) == [i \in DOMAIN s |-> IF s[i] \in UpperChars THEN LowerOf[s[i]] ELSE s[i]]

HttpSchemes == {<<"h", "t", "t", "p">>, <<"h", "t", "t", "p", "s">>}

\* Whether the text u = [scheme, host, path] is a well-formed http(s) URL.
HttpUrlValid(u) == Lower(u.scheme) \in HttpSchemes /\ Len(u.host) > 0

\* The parsed HttpUrl of a well-formed u: scheme and host in lower case and an
\* empty path made "/".
HttpUrl(u) ==
    [scheme |-> Lower(u.scheme),
     host |-> Lower(u.host),
     path |-> IF u.path = <<>> THEN <<"/">> ELSE u.path]

\* ------------------------------------------------------- request binding

\* Whether a JSON body binds to a model with these fields: every required
\* field is present and a given image_url is well formed.
ShapeValid(body, required) ==
    /\ required \subseteq DOMAIN body
    /\ ("image_url" \in DOMAIN body /\ body["image_url"] # None)
          => HttpUrlValid(body["image_url"][1])

\* The bound model: the model's fields only (other keys of the body are
\* dropped), omitted fields at their defaults, image_url parsed.
Bind(body, fields) ==
    [f \in fields |->
        IF f \notin DOMAIN body THEN FieldDefault(f)
        ELSE IF f = "image_url" /\ body[f] # None THEN Some(HttpUrl(body[f][1]))
        ELSE body[f]]

\* payload.model_dump(): the model's fields as a plain record.
model_dump(payload) == payload

\* A rarity check that compares without regard to case of the first letter.
validate_rarity_lax(payload) ==
    payload["rarity"] \in RARITIES \cup {"common", "rare", "epic", "legendary", "champion"}

\* validate_rarity: TRUE when it returns, FALSE when it raises HTTPException(400).
validate_rarity(payload) == payload["rarity"] \in RARITIES

\* ------------------------------------------------------ request inputs

UrlUpper == [scheme |-> <<"H", "T", "T", "P">>, host |-> <<"A", ".", "i", "o">>, path |-> <<>>]

UrlFtp == [scheme |-> <<"f", "t", "p">>, host |-> <<"a", ".", "i", "o">>, path |-> <<"/", "x">>]

\* JSON bodies sent to POST /api/characters.  The first two bind and pass the
\* rarity check (the second carries a key the model does not have); the third
\* binds but its rarity is not in RARITIES; the last two do not bind (name
\* missing, with a rarity outside RARITIES; image_url not an http URL).
CharacterBodies ==
    {[name |-> "Aria", rarity |-> "Epic", tags |-> <<"a", "b">>],
     [name |-> "Bo", rarity |-> "Champion", nation_code |-> Some("CAN"),
      image_url |-> Some(UrlUpper), stats |-> Some([hp |-> 5]),
      id |-> <<"f", "f">>],
     [name |-> "Aria", rarity |-> "epic"],
     [rarity |-> "Mythic", tags |-> <<"a">>],
     [name |-> "Cy", rarity |-> "Rare", image_url |-> Some(UrlFtp)]}

\* JSON bodies sent to POST /api/items, likewise.
ItemBodies ==
    {[name |-> "Sword", type |-> "Weapon", rarity |-> "Epic"],
     [name |-> "Potion", type |-> "Consumable", rarity |-> "Common",
      effect |-> Some("heal"), tags |-> <<"b", "a">>],
     [name |-> "Sword", type |-> "Weapon", rarity |-> "Mythic"],
     [name |-> "Ring", rarity |-> "Unique"]}

\* The default of the limit query parameter.
DefaultLimit == 100

\* The limit query parameter: omitted, or an integer.
LimitQueries == {None, Some(-1), Some(0), Some(1), Some(2)}

\* Where str(e) and the collection list are cut by /test.
ErrCut == 50

CollectionsCut == 10

\* Messages of the exception a failing store raises.
ErrorMessages == {Msg(3), Msg(ErrCut + 1)}

\* What db.list_collection_names() may return.
CollectionLists == {Msg(2), Msg(CollectionsCut + 1)}

\* ------------------------------------------------------------- the store

Collections == {"character", "item"}

\* The store connection: the database module lacks db (ImportError), importing
\* db raises another exception, db is None, db is set but its queries raise,
\* or db is set and answers.
ConnStates == {"no_module", "import_fails", "none", "down", "healthy"}

\* The record the store keeps for `fields` under identifier oid.
Document(fields, oid) ==
    [f \in DOMAIN fields \cup {"_id"} |-> IF f = "_id" THEN oid ELSE fields[f]]

\* create_document(collection_name, fields): raises when the store is
\* unavailable; otherwise inserts one record under a fresh identifier and
\* returns the identifier as text.
create_document(collection_name, fields) ==
    IF conn # "healthy"
    THEN [raised |-> TRUE, id |-> <<>>, store |-> store, next_oid |-> next_oid]
    ELSE [raised |-> FALSE,
          id |-> HexStr(next_oid, OidHexLen),
          store |-> [store EXCEPT ![collection_name] =
                        Append(@, Document(fields, next_oid))],
          next_oid |-> next_oid + 1]

\* get_documents(collection_name, limit): the outcomes it may have.  It raises
\* when the store is unavailable.  For limit >= 0 it returns min(limit, count)
\* records of the collection in storage order (which ones is the store's
\* choice); what a negative limit returns is not defined: any records of the
\* collection in storage order, or an error.
get_documents(collection_name, limit) ==
    LET docs == store[collection_name] IN
    IF conn # "healthy" THEN {[raised |-> TRUE, docs |-> <<>>]}
    ELSE IF limit >= 0
    THEN {[raised |-> FALSE, docs |-> s] : s \in SubSeqsOfLen(docs, Min(limit, Len(docs)))}
    ELSE {[raised |-> FALSE, docs |-> s] : s \in AllSubSeqs(docs)}
         \cup {[raised |-> TRUE, docs |-> <<>>]}

\* ---------------------------------------------------------- responses

NoRequest == [none |-> TRUE]

\* What a request ended in: the route, the HTTP status, the body, the request's
\* inputs, the connection state the handler met, how many calls it made to
\* the store adapter, and the store as it was when the request arrived.
Response(route, status, body, request, calls) ==
    [route |-> route, status |-> status, body |-> body, request |-> request,
     seen |-> conn, calls |-> calls, before |-> store]

\* The framework's answer to a body that does not bind.
Unprocessable(route, request) ==
    Response(route, 422, [detail |-> "validation error"], request, 0)

\* The framework's answer to an exception that leaves the handler.
ServerError(route, request, calls) ==
    Response(route, 500, [detail |-> "Internal Server Error"], request, calls)

\* ------------------------------------------------------------- the routes

Init ==
    /\ store = [c \in Collections |-> <<>>]
    /\ next_oid = 0
    /\ conn \in ConnStates
    /\ resp = Response("startup", 0, [none |-> TRUE], NoRequest, 0)
    /\ issued = <<>>

read_root ==
    /\ resp' = Response("read_root", 200,
                        [message |-> "Hello from FastAPI Backend!"], NoRequest, 0)
    /\ UNCHANGED <<store, next_oid, conn, issued>>

hello ==
    /\ resp' = Response("hello", 200,
                        [message |-> "Hello from the backend API!"], NoRequest, 0)
    /\ UNCHANGED <<store, next_oid, conn, issued>>

\* model_json_schema() of the two record shapes.
model_json_schema(fields, required) == [properties |-> fields, required |-> required]

get_schema ==
    /\ resp' = Response("get_schema", 200,
                        [character |-> model_json_schema(CharacterFields, CharacterRequired),
                         item |-> model_json_schema(ItemFields, ItemRequired)],
                        NoRequest, 0)
    /\ UNCHANGED <<store, next_oid, conn, issued>>

\* The database text of /test.  The source's texts open with a mark (a check,
\* a cross or a warning sign), written here [ok], [x] and [!].
DbText(text, detail) == [text |-> text, detail |-> detail]

\* The try block of test_database with every exception leaving it.
DatabaseProbe_unguarded(response, has_name, e, names) ==
    CASE conn \in {"no_module", "import_fails"} ->
            [raised |-> TRUE, response |-> response]
      [] conn = "none" ->
            [raised |-> FALSE,
             response |-> [response EXCEPT
                 !["database"] = DbText("[!] Available but not initialized", <<>>)]]
      [] conn = "down" ->
            [raised |-> TRUE, response |-> response]
      [] OTHER ->
            [raised |-> FALSE,
             response |-> [response EXCEPT
                 !["database_url"] = Some("[ok] Configured"),
                 !["database_name"] = Some(IF has_name THEN "artlib" ELSE "[ok] Connected"),
                 !["connection_status"] = "Connected",
                 !["collections"] = Take(names, CollectionsCut),
                 !["database"] = DbText("[ok] Connected & Working", <<>>)]]

\* The try block of test_database: import db, describe it, list its
\* collections; every exception becomes a text in response["database"].
DatabaseProbe(response, has_name, e, names) ==
    CASE conn = "no_module" ->
            [raised |-> FALSE,
             response |-> [response EXCEPT
                 !["database"] =
                     DbText("[x] Database module not found (run enable-database first)", <<>>)]]
      [] conn = "import_fails" ->
            [raised |-> FALSE,
             response |-> [response EXCEPT
                 !["database"] = DbText("[x] Error: ", Take(e, ErrCut))]]
      [] conn = "none" ->
            [raised |-> FALSE,
             response |-> [response EXCEPT
                 !["database"] = DbText("[!] Available but not initialized", <<>>)]]
      [] conn = "down" ->
            [raised |-> FALSE,
             response |-> [response EXCEPT
                 !["database_url"] = Some("[ok] Configured"),
                 !["database_name"] = Some(IF has_name THEN "artlib" ELSE "[ok] Connected"),
                 !["connection_status"] = "Connected",
                 !["database"] = DbText("[!] Connected but Error: ", Take(e, ErrCut))]]
      [] OTHER ->
            [raised |-> FALSE,
             response |-> [response EXCEPT
                 !["database_url"] = Some("[ok] Configured"),
                 !["database_name"] = Some(IF has_name THEN "artlib" ELSE "[ok] Connected"),
                 !["connection_status"] = "Connected",
                 !["collections"] = Take(names, CollectionsCut),
                 !["database"] = DbText("[ok] Connected & Working", <<>>)]]

\* GET /test.  has_name: whether db, when set, has a name attribute; e: the
\* message of the exception raised, when one is; names: the collection names
\* the store lists, when it answers; env_url, env_name: whether DATABASE_URL
\* and DATABASE_NAME are set (to a non-empty text).
test_database ==
    \E has_name \in (IF conn \in {"down", "healthy"} THEN BOOLEAN ELSE {FALSE}),
       e \in (IF conn \in {"import_fails", "down"} THEN ErrorMessages ELSE {<<>>}),
       names \in (IF conn = "healthy" THEN CollectionLists ELSE {<<>>}),
       env_url \in BOOLEAN, env_name \in BOOLEAN :
        LET response == [backend |-> "[ok] Running",
                         database |-> DbText("[x] Not Available", <<>>),
                         database_url |-> None,
                         database_name |-> None,
                         connection_status |-> "Not Connected",
                         collections |-> <<>>]
            probe == DatabaseProbe(response, has_name, e, names)
            request == [env_url |-> env_url, env_name |-> env_name]
        IN  /\ resp' =
                 IF probe.raised THEN ServerError("test_database", request, 0)
                 ELSE Response("test_database", 200,
                          [probe.response EXCEPT
                              !["database_url"] =
                                  Some(IF env_url THEN "[ok] Set" ELSE "[x] Not Set"),
                              !["database_name"] =
                                  Some(IF env_name THEN "[ok] Set" ELSE "[x] Not Set")],
                          request, 0)
            /\ UNCHANGED <<store, next_oid, conn, issued>>

\* The limit passed on, one less than asked for.
QueryLimit_short(q) == IF q = None THEN DefaultLimit ELSE q[1] - 1

\* The limit passed on, the default whatever the caller asked for.
QueryLimit_default(q) == DefaultLimit

\* The limit parameter of a list route (limit: int = 100): the caller's
\* value as it is, DefaultLimit when omitted.
QueryLimit(q) == IF q = None THEN DefaultLimit ELSE q[1]

\* The rewrite that adds id and leaves _id in the record.
Normalize_keep(d) ==
    IF "_id" \in DOMAIN d
    THEN [f \in DOMAIN d \cup {"id"} |-> IF f = "id" THEN str(d["_id"]) ELSE d[f]]
    ELSE d

\* if "_id" in d: d["id"] = str(d.pop("_id"))
Normalize(d) ==
    IF "_id" \in DOMAIN d
    THEN [f \in (DOMAIN d \ {"_id"}) \cup {"id"} |->
             IF f = "id" THEN str(d["_id"]) ELSE d[f]]
    ELSE d

\* A list handler that answers a failing store with an empty result.
ListResponse_fallback(route, request, out) ==
    IF out.raised
    THEN Response(route, 200, [items |-> <<>>], request, 1)
    ELSE Response(route, 200,
                  [items |-> [i \in DOMAIN out.docs |-> Normalize(out.docs[i])]],
                  request, 1)

\* What a list handler ends in, given the outcome of its one get_documents
\* call: the exception leaves the handler, or the records are normalised and
\* returned.
ListResponse(route, request, out) ==
    IF out.raised
    THEN ServerError(route, request, 1)
    ELSE Response(route, 200,
                  [items |-> [i \in DOMAIN out.docs |-> Normalize(out.docs[i])]],
                  request, 1)

\* A list route over one collection.
ListRoute(route, collection) ==
    \E q \in LimitQueries :
        LET limit == QueryLimit(q)
            request == [query |-> q, limit |-> limit]
        IN  \E out \in get_documents(collection, limit) :
                /\ resp' = ListResponse(route, request, out)
                /\ UNCHANGED <<store, next_oid, conn, issued>>

list_characters == ListRoute("list_characters", "character")

list_items == ListRoute("list_items", "item")

\* Positions of the records of a collection that hold these fields.
Holding(collection, fields) ==
    {i \in DOMAIN store[collection] :
        [f \in DOMAIN fields |-> store[collection][i][f]] = fields}

\* A persist step that returns the identifier of a record already holding the
\* same fields instead of inserting (an upsert).
Persist_upsert(route, collection, payload) ==
    LET same == Holding(collection, model_dump(payload)) IN
    IF conn = "healthy" /\ same # {}
    THEN [raised |-> FALSE,
          id |-> HexStr(store[collection][CHOOSE i \in same : TRUE]["_id"], OidHexLen),
          store |-> store, next_oid |-> next_oid]
    ELSE create_document(collection, model_dump(payload))

\* A persist step that keeps only the newest record of the collection.
Persist_replace(route, collection, payload) ==
    LET out == create_document(collection, model_dump(payload)) IN
    IF out.raised THEN out
    ELSE [out EXCEPT !.store =
             [store EXCEPT ![collection] =
                 <<Document(model_dump(payload), next_oid)>>]]

\* A persist step that writes every record to the character collection.
Persist_one_collection(route, collection, payload) ==
    create_document("character", model_dump(payload))

\* _id = create_document(<collection>, payload.model_dump())
Persist(route, collection, payload) ==
    create_document(collection, model_dump(payload))

\* A create route over one collection: bind the body to the model (the
\* framework answers 422 when it does not bind), check the rarity (400),
\* persist (an exception leaves the handler) and return the identifier.
CreateRoute(route, collection, bodies, fields, required) ==
    \E body \in bodies :
        LET request == [body |-> body] IN
        IF ~ShapeValid(body, required)
        THEN /\ resp' = Unprocessable(route, request)
             /\ UNCHANGED <<store, next_oid, conn, issued>>
        ELSE LET payload == Bind(body, fields) IN
             IF ~validate_rarity(payload)
             THEN /\ resp' = Response(route, 400, [detail |-> "Invalid rarity"],
                                      request, 0)
                  /\ UNCHANGED <<store, next_oid, conn, issued>>
             ELSE LET out == Persist(route, collection, payload) IN
                  IF out.raised
                  THEN /\ resp' = ServerError(route, request, 1)
                       /\ UNCHANGED <<store, next_oid, conn, issued>>
                  ELSE /\ next_oid < MaxDocs
                       /\ store' = out.store
                       /\ next_oid' = out.next_oid
                       /\ resp' = Response(route, 200, [id |-> out.id], request, 1)
                       /\ issued' = Append(issued,
                              [route |-> route, id |-> out.id, body |-> body])
                       /\ UNCHANGED conn

create_character ==
    CreateRoute("create_character", "character",
                CharacterBodies, CharacterFields, CharacterRequired)

create_item ==
    CreateRoute("create_item", "item", ItemBodies, ItemFields, ItemRequired)

\* The store becomes available or unavailable between two requests.
store_state_changes ==
    /\ conn' \in ConnStates \ {conn}
    /\ UNCHANGED <<store, next_oid, resp, issued>>

Next ==
    \/ read_root
    \/ hello
    \/ test_database
    \/ get_schema
    \/ list_characters
    \/ create_character
    \/ list_items
    \/ create_item
    \/ store_state_changes

Spec == Init /\ [][Next]_vars

\* ------------------------------------------------------------ properties

ListRoutes == {"list_characters", "list_items"}

CreateRoutes == {"create_character", "create_item"}

CollectionOf(route) ==
    IF route \in {"list_characters", "create_character"} THEN "character" ELSE "item"

CreateRouteOf(collection) ==
    IF collection = "character" THEN "create_character" ELSE "create_item"

FieldsOf(collection) == IF collection = "character" THEN CharacterFields ELSE ItemFields

RequiredOf(collection) ==
    IF collection = "character" THEN CharacterRequired ELSE ItemRequired

\* The limit the caller of the last list call asked for.
AskedLimit == IF resp.request.query = None THEN DefaultLimit ELSE resp.request.query[1]

\* The last request was a list call that returned a response.
Listed == resp.route \in ListRoutes /\ resp.status = 200

\* The last request was a create call that returned an identifier.
Created == resp.route \in CreateRoutes /\ resp.status = 200

\* The body of the last create call binds / has a rarity of the fixed set.
BodyBinds == ShapeValid(resp.request.body, RequiredOf(CollectionOf(resp.route)))

BodyRarityKnown ==
    "rarity" \in DOMAIN resp.request.body /\ resp.request.body["rarity"] \in RARITIES

\* The entries of issued that a route returned.
IssuedBy(route) == {issued[i] : i \in {j \in DOMAIN issued : issued[j].route = route}}

HexDigitValue(c) == (CHOOSE k \in DOMAIN HexDigits : HexDigits[k] = c) - 1

\* The number a hexadecimal text denotes.
RECURSIVE HexVal(_)
HexVal(s) ==
    IF s = <<>> THEN 0
    ELSE 16 * HexVal(SubSeq(s, 1, Len(s) - 1)) + HexDigitValue(s[Len(s)])

IsIdText(s) == Len(s) = OidHexLen /\ \A i \in DOMAIN s : s[i] \in Range(HexDigits)

\* C1 as stated, read for requests that reach an available store: a create
\* call with a shape-valid payload whose rarity is in the fixed set returns a
\* non-empty text identifier, and any later list call on the same collection,
\* whatever its limit n >= 0, returns a record with that id.
C1_CreateThenAnyList ==
    /\ (resp.route \in CreateRoutes /\ BodyBinds /\ BodyRarityKnown
            /\ resp.seen = "healthy")
          => (resp.status = 200 /\ Len(resp.body.id) > 0)
    /\ (resp.route \in ListRoutes /\ resp.seen = "healthy" /\ AskedLimit >= 0) =>
          \A e \in IssuedBy(CreateRouteOf(CollectionOf(resp.route))) :
              /\ resp.status = 200
              /\ \E i \in DOMAIN resp.body.items : resp.body.items[i]["id"] = e.id

\* C1 as amended: such a create call, when it reaches an available store,
\* returns a non-empty text identifier, and any later list call on the same
\* collection that returns and whose limit is at least the number of records
\* the collection holds (the default limit 100 included) returns a record with
\* that id.
C1_CreateThenFullList ==
    /\ (resp.route \in CreateRoutes /\ BodyBinds /\ BodyRarityKnown
            /\ resp.seen = "healthy")
          => (resp.status = 200 /\ Len(resp.body.id) > 0)
    /\ (Listed /\ AskedLimit >= Len(store[CollectionOf(resp.route)])) =>
          \A e \in IssuedBy(CreateRouteOf(CollectionOf(resp.route))) :
              \E i \in DOMAIN resp.body.items : resp.body.items[i]["id"] = e.id

\* A list call with the default limit returned both records created before it.
C1_Witness ==
    /\ resp.route = "list_characters" /\ resp.status = 200
    /\ resp.request.query = None
    /\ Cardinality(IssuedBy("create_character")) = 2
    /\ Len(resp.body.items) = 2

\* C2 as stated: every create call whose payload has a rarity outside the fixed
\* set ends in HTTP 400 and leaves the store as it was, and every record
\* persisted has a rarity of the fixed set.
C2_BadRarityIs400 ==
    /\ (resp.route \in CreateRoutes /\ ~BodyRarityKnown)
          => (resp.status = 400 /\ store = resp.before)
    /\ \A c \in Collections : \A i \in DOMAIN store[c] :
          store[c][i]["rarity"] \in RARITIES

\* C2 as amended: such a create call ends in a client error, HTTP 400 when the
\* payload is shape-valid and HTTP 422 (from request binding, before the rarity
\* check) when it is not, makes no call to the store and leaves it as it was;
\* every record persisted has a rarity of the fixed set.
C2_BadRarityRejected ==
    /\ (resp.route \in CreateRoutes /\ ~BodyRarityKnown)
          => /\ resp.status = (IF BodyBinds THEN 400 ELSE 422)
             /\ resp.calls = 0
             /\ store = resp.before
    /\ \A c \in Collections : \A i \in DOMAIN store[c] :
          store[c][i]["rarity"] \in RARITIES

\* A shape-valid payload with a rarity in the wrong case was rejected with 400
\* while the collection held a record.
C2_Witness ==
    /\ resp.route = "create_character" /\ resp.status = 400
    /\ BodyBinds /\ resp.request.body["rarity"] = "epic"
    /\ Len(store["character"]) >= 1

\* C3: no record a list call returns has the field _id, and each has the field
\* id, whose value is the text of the store identifier of the stored record it
\* is a copy of.
C3_ListedIds ==
    Listed =>
        \A i \in DOMAIN resp.body.items :
            LET r == resp.body.items[i]
                docs == store[CollectionOf(resp.route)]
            IN  /\ "_id" \notin DOMAIN r
                /\ "id" \in DOMAIN r
                /\ IsIdText(r["id"])
                /\ \E j \in DOMAIN docs :
                      /\ docs[j]["_id"] = HexVal(r["id"])
                      /\ DOMAIN r \ {"id"} = DOMAIN docs[j] \ {"_id"}
                      /\ \A f \in DOMAIN r \ {"id"} : r[f] = docs[j][f]

\* A list call returned two records, the second under the identifier 1.
C3_Witness ==
    /\ Listed /\ Len(resp.body.items) = 2
    /\ HexVal(resp.body.items[2]["id"]) = 1

\* C4 as stated, read for list calls that reach an available store: a list
\* call with limit n returns at most n records, limit = 0 returns an empty
\* sequence and no error, and the handler passes the caller's limit on as it is
\* (0 and negative values included).
C4_AtMostLimit ==
    (resp.route \in ListRoutes /\ resp.seen = "healthy") =>
        /\ resp.request.limit = AskedLimit
        /\ resp.status = 200 => Len(resp.body.items) <= AskedLimit
        /\ AskedLimit = 0 => (resp.status = 200 /\ resp.body.items = <<>>)

\* C4 as amended: a list call with limit n >= 0 that returns, returns at most n
\* records; limit = 0 on an available store returns an empty sequence and no
\* error; the handler passes the caller's limit on as it is.
C4_AtMostNonNegativeLimit ==
    resp.route \in ListRoutes =>
        /\ resp.request.limit = AskedLimit
        /\ (resp.status = 200 /\ AskedLimit >= 0) => Len(resp.body.items) <= AskedLimit
        /\ (AskedLimit = 0 /\ resp.seen = "healthy")
              => (resp.status = 200 /\ resp.body.items = <<>>)

\* A list call with limit = 0 returned an empty sequence from a collection that
\* holds two records.
C4_Witness ==
    /\ resp.route = "list_items" /\ resp.status = 200
    /\ resp.request.query = Some(0)
    /\ Len(store["item"]) = 2
    /\ resp.body.items = <<>>

\* The database text /test is to give for a connection state.
ExpectedDbText(state) ==
    CASE state = "no_module" ->
            "[x] Database module not found (run enable-database first)"
      [] state = "import_fails" -> "[x] Error: "
      [] state = "none" -> "[!] Available but not initialized"
      [] state = "down" -> "[!] Connected but Error: "
      [] OTHER -> "[ok] Connected & Working"

\* C5: whatever the state of the store and whichever of DATABASE_URL and
\* DATABASE_NAME are set, /test returns a normal response (no exception leaves
\* the handler) whose database field describes the state of the store as text:
\* a failure text, with the exception's message cut to ErrCut characters, unless
\* the store is healthy; the two environment fields say what is set.
C5_TestNeverFails ==
    resp.route = "test_database" =>
        /\ resp.status = 200
        /\ resp.body["database"].text = ExpectedDbText(resp.seen)
        /\ (resp.seen # "healthy") <=>
              (resp.body["database"].text # "[ok] Connected & Working")
        /\ Len(resp.body["database"].detail) <= ErrCut
        /\ Len(resp.body["collections"]) <= CollectionsCut
        /\ resp.body["database_url"] =
              Some(IF resp.request.env_url THEN "[ok] Set" ELSE "[x] Not Set")
        /\ resp.body["database_name"] =
              Some(IF resp.request.env_name THEN "[ok] Set" ELSE "[x] Not Set")

\* /test answered 200 while the store's queries raise, with the message cut, and
\* with neither environment variable set.
C5_Witness ==
    /\ resp.route = "test_database" /\ resp.status = 200
    /\ resp.seen = "down"
    /\ Len(resp.body["database"].detail) = ErrCut
    /\ ~resp.request.env_url /\ ~resp.request.env_name

\* C6: every create call that returns an identifier has added exactly one record
\* to its collection, under that identifier, which no earlier record has; so the
\* identifiers returned are pairwise distinct and each collection holds as many
\* records as its create route returned identifiers, identical payloads included.
C6_PostNeverIdempotent ==
    /\ \A i, j \in DOMAIN issued : i # j => issued[i].id # issued[j].id
    /\ \A c \in Collections :
          Len(store[c]) = Cardinality({i \in DOMAIN issued : issued[i].route = CreateRouteOf(c)})
    /\ Created =>
          LET c == CollectionOf(resp.route)
              n == Len(resp.before[c])
          IN  /\ Len(store[c]) = n + 1
              /\ SubSeq(store[c], 1, n) = resp.before[c]
              /\ store[c][n + 1]["_id"] = HexVal(resp.body.id)
              /\ \A k \in 1..n : store[c][k]["_id"] # store[c][n + 1]["_id"]

\* Two create calls with the same payload have returned.
C6_Witness ==
    /\ Len(issued) = 2
    /\ issued[1].route = issued[2].route
    /\ issued[1].body = issued[2].body
    /\ Created
    /\ Len(store[CollectionOf(resp.route)]) = 2

\* C7: no step of any route changes or removes a stored record: every collection
\* keeps its records, in place, with the same identifier and field values, and
\* can only gain records at its end.
C7_RecordsPersist ==
    [][\A c \in Collections :
          /\ Len(store[c]) <= Len(store'[c])
          /\ SubSeq(store'[c], 1, Len(store[c])) = store[c]]_vars

\* A list call returned the two records of a collection, rewritten, and the
\* collection still holds them as they were.
C7_Witness ==
    /\ resp.route = "list_items" /\ resp.status = 200
    /\ Len(resp.body.items) = 2
    /\ Len(store["item"]) = 2
    /\ \A i \in 1..2 : "_id" \in DOMAIN store["item"][i]
    /\ \A i \in 1..2 : "_id" \notin DOMAIN resp.body.items[i]

\* C8: a record a list call returns under an identifier that a create call
\* returned carries, for every field of the model, the value that was
\* submitted, or the field's default when the payload omitted it.
C8_RoundTrip ==
    Listed =>
        \A i \in DOMAIN resp.body.items :
            \A e \in IssuedBy(CreateRouteOf(CollectionOf(resp.route))) :
                resp.body.items[i]["id"] = e.id =>
                    \A f \in FieldsOf(CollectionOf(resp.route)) :
                        resp.body.items[i][f] =
                            (IF f \in DOMAIN e.body THEN e.body[f] ELSE FieldDefault(f))

\* C9: a request that meets an unavailable store never ends as one that met an
\* empty store would: a list call ends in the propagated error (never 200 with
\* items), a create call never returns an identifier and, when its payload
\* passes the checks, ends in the propagated error; each has made at most one
\* call to the store adapter and the store holds what it held.
C9_UnavailableIsAnError ==
    resp.seen # "healthy" =>
        /\ resp.route \in ListRoutes => (resp.status = 500 /\ resp.calls = 1)
        /\ resp.route \in CreateRoutes =>
              /\ resp.status \in {400, 422, 500}
              /\ resp.calls <= 1
              /\ store = resp.before
              /\ (BodyBinds /\ BodyRarityKnown) => (resp.status = 500 /\ resp.calls = 1)

\* A list call on a collection that holds a record ended in the propagated
\* error because the store's queries raise.
C9_Witness ==
    /\ resp.route = "list_characters" /\ resp.status = 500
    /\ resp.seen = "down"
    /\ Len(store["character"]) >= 1

\* C10: a create call on one collection leaves the other collection as it was,
\* each collection holds exactly the records its own create route returned
\* identifiers for, and a list call returns only such records.
C10_CollectionsIsolated ==
    /\ resp.route = "create_character" => store["item"] = resp.before["item"]
    /\ resp.route = "create_item" => store["character"] = resp.before["character"]
    /\ \A c \in Collections :
          {HexVal(e.id) : e \in IssuedBy(CreateRouteOf(c))}
              = {store[c][i]["_id"] : i \in DOMAIN store[c]}
    /\ Listed =>
          \A i \in DOMAIN resp.body.items :
              \E e \in IssuedBy(CreateRouteOf(CollectionOf(resp.route))) :
                  e.id = resp.body.items[i]["id"]

\* A list call on the characters returned the one character while the item
\* collection held an item.
C10_Witness ==
    /\ resp.route = "list_characters" /\ resp.status = 200
    /\ Len(resp.body.items) = 1
    /\ Len(store["item"]) = 1

====
